---- MODULE Spec2Model ----
(***************************************************************************)
(* A model of the Pusher websocket client of src/client.go: the session    *)
(* (Connect, connectInternal, Disconnect), the dispatcher (listen), the    *)
(* heartbeat with its pong waiters, the reconnection loop                  *)
(* (attemptReconnect) and the channel registry (Subscribe,                 *)
(* SubscribePresence, Unsubscribe).                                        *)
(*                                                                         *)
(* Durations are in milliseconds.  A transport is a number 1..MaxConn, 0   *)
(* is the nil *websocket.Conn.  The objects one successful handshake       *)
(* allocates (done, the two timers, the two one-slot channels) carry the   *)
(* number of the transport the handshake was made on.                      *)
(*                                                                         *)
(* Every handler is one action, or one action per stretch between two      *)
(* points where other goroutines can interleave (a lock taken or released, *)
(* a blocking Receive, a Sleep).  The variable ev records what the last    *)
(* step did, so that the contract of a call is a property of the state     *)
(* that follows it.  The variable fan holds the sinks Bind returned and    *)
(* the deliveries made to them.  The specifications run the actions by     *)
(* scenario: Spec (the session and its reconnection), SpecRestore (a       *)
(* registry restored by a reconnection), SpecRegistry (concurrent callers  *)
(* of the registry), SpecBindings (Bind and Unbind), SpecDispatch (events  *)
(* routed to sinks and channels), SpecControl (control frames across       *)
(* sessions), SpecHeartbeat (the heartbeat of one session), SpecPongs      *)
(* (pongs answered and missed on one session), SpecMissed (missed pongs    *)
(* and the reconnection they start), SpecSend (SendEvent during a          *)
(* reconnection), SpecTriggers (a lost transport detected by dispatcher    *)
(* and heartbeat) and SpecSilent (a silent transport, with fairness and    *)
(* the order of timer expiries, for liveness).                             *)
(***************************************************************************)
EXTENDS Integers, Sequences, FiniteSets, Bags, TLC

\* ------------------------------------------------------------------ bounds
\* Transports the environment lets the client open in one run.
MaxConn == 3
\* Pong waiters alive at once (a ping starts one; where the goroutine of a wait
\* is not taken back after it has returned, pings the heartbeats send in one run).
MaxPings == 1
\* Channel objects the callers create in one run.
MaxObjs == 2
\* Transports the peer or the network drops in one run.
MaxLoss == 1
\* Room of the error sink: free buffer slots plus consumers ready to receive.
ErrCap == 1
\* Sinks the callers bind in one run.
MaxSinks == 3
\* Frames with bound sinks the dispatcher routes in one run.
MaxFrames == 2
\* Sinks bound while the dispatcher routes events.
DispatchSinks == 2
\* Sinks bound to the names of control events.
ControlSinks == 1
\* Transports the caller of Connect opens while control frames arrive.
ControlConns == 2
\* Transports the client dials in a run of the missed pongs.
MissedConns == 2

\* ------------------------------------------------------- program constants
Second == 1000
maxPongFailures == 2
initialReconnectDelay == 1 * Second
maxReconnectDelay == 60 * Second
defaultPongTimeout == 30 * Second

pusherPing == "pusher:ping"
pusherPong == "pusher:pong"
pusherError == "pusher:error"
pusherSubscribe == "pusher:subscribe"
pusherUnsubscribe == "pusher:unsubscribe"
pusherConnEstablished == "pusher:connection_established"
pusherInternalSubSucceeded == "pusher_internal:subscription_succeeded"

\* ------------------------------------------------------------------ strings
\* Channel names are sequences of characters, so that HasPrefix is computed.
HasPrefix(s, prefix) ==
    /\ Len(s) >= Len(prefix)
    /\ SubSeq(s, 1, Len(prefix)) = prefix

PrivatePrefix == <<"p", "r", "i", "v", "a", "t", "e", "-">>
PresencePrefix == <<"p", "r", "e", "s", "e", "n", "c", "e", "-">>

\* ------------------------------------------------------------------- values
Sessions == 1..MaxConn
Free == <<"free", 0>>
Caller == <<"T", 1>>
Threads == {<<"T", 1>>, <<"T", 2>>}
Listeners == {<<"L", s>> : s \in Sessions}
Heartbeats == {<<"H", s>> : s \in Sessions}
Waiters == {<<"W", k>> : k \in 1..MaxPings}
Procs == Listeners \cup Heartbeats \cup Waiters

\* A goroutine: where it is (pc), what it is blocked on (b: the transport a
\* Receive reads, or the session whose channels a select waits on), the frame or
\* error it holds (x), and attemptReconnect's locals oldWs and delay.
NoFrame == [event |-> "", channel |-> <<>>, err |-> "nil", code |-> 0, message |-> ""]
NoProc == [pc |-> "none", b |-> 0, x |-> NoFrame, oldWs |-> 0, delay |-> 0]
Exited == [NoProc EXCEPT !.pc = "exit"]
At(pc) == [NoProc EXCEPT !.pc = pc]

\* error values
Nil == [kind |-> "nil"]
Err(kind) == [kind |-> kind]

\* What the server can answer the dial of transport w with: the payloads of
\* pusher:connection_established (a socket id of its own for every transport)
\* and of pusher:error.
SocketIdOf(w) == <<"socket", w>>
EstData(w) == {[socket_id |-> SocketIdOf(w),
                activity_timeout |-> IF w % 2 = 1 THEN 1234 ELSE 1]}
ErrData == {[code |-> 1234, message |-> "foo"], [code |-> 4001, message |-> "bar"]}

FirstFrame(event, valid, d, e) ==
    [event |-> event, valid |-> valid, err |-> "nil",
     socket_id |-> d.socket_id, activity_timeout |-> d.activity_timeout,
     code |-> e.code, message |-> e.message]
NoEst == [socket_id |-> <<"", 0>>, activity_timeout |-> 0]
NoErr == [code |-> 0, message |-> ""]
FirstFrames(w) ==
    {FirstFrame(pusherConnEstablished, TRUE, d, NoErr) : d \in EstData(w)}
    \cup {FirstFrame(pusherConnEstablished, FALSE, NoEst, NoErr)}
    \cup {FirstFrame(pusherError, TRUE, NoEst, e) : e \in ErrData}
    \cup {FirstFrame("foo", TRUE, NoEst, NoErr)}
RecvFailed == [FirstFrame("", FALSE, NoEst, NoErr) EXCEPT !.err = "EOF"]

\* Channel names the callers use.
Foo == <<"f", "o", "o">>
PrivateFoo == PrivatePrefix \o Foo
PresenceFoo == PresencePrefix \o Foo
Private == <<"p", "r", "i", "v", "a", "t", "e">>
PresenceX == <<"p", "r", "e", "s", "e", "n", "c", "e", "x">>
Names == {Foo, PrivateFoo, PresenceFoo, Private, PresenceX}

\* Event names the callers bind and the server sends.
Events == {"foo", "bar"}

\* --------------------------------------------------------------- variables
VARIABLES
    c,          \* the Client struct (src/client.go 61-104)
    mutex,      \* c.mutex: Free, or who holds it across steps
    conn,       \* the transports: "unused", "open", "lost" (by the peer), "closed"
    doneClosed, \* the done channels that are closed
    timers,     \* per session: the activity timer and the pong timer
    resetChans, \* per session: the activityTimerReset channel
    pongChans,  \* per session: the pongReceived channel
    channels,   \* the channel objects Subscribe created, by number
    errRoom,    \* the error sink: free buffer slots plus waiting consumers
    proc,       \* the goroutines
    usr,        \* the callers
    life,       \* the caller's last lifecycle call: "new", "up", "down"
    abandoned,  \* Disconnect was called during a reconnection, no Connect since
    closes,     \* the Disconnects that closed a session since the last Connect
    losses,     \* the transports dropped so far
    ev,         \* what the last step did
    panicked,   \* the program ended in a run-time panic
    fan         \* the sinks Bind returned, and the deliveries made to them

vars == <<c, mutex, conn, doneClosed, timers, resetChans, pongChans, channels,
          errRoom, proc, usr, life, abandoned, closes, losses, ev, panicked, fan>>

\* ------------------------------------------------------------ pure helpers
\* func min (src/client.go 351-356)
Min(a, b) == IF a < b THEN a ELSE b

\* attemptReconnect, line 331
NextReconnectDelay(d) == Min(d * 2, maxReconnectDelay)

\* A faulty variant of line 183: the frame's number taken as it is.
ActivityTimeoutUnscaled(f) == f.activity_timeout

\* connectInternal, line 183
ActivityTimeoutOf(f) == f.activity_timeout * Second

\* make(chan struct{}, n) and a send in a select with a default case
MakeChan(n) == [cap |-> n, len |-> 0]
NoChan == [cap |-> 0, len |-> 0]
TrySend(ch) == IF ch.len < ch.cap THEN [ch EXCEPT !.len = @ + 1] ELSE ch

\* connectInternal, lines 185 and 193
NewResetChan == MakeChan(1)
NewPongChan == MakeChan(1)

\* extractEventError: the EventError a pusher:error frame decodes to
extractEventError(f) == [kind |-> "EventError", code |-> f.code, message |-> f.message]

\* A faulty variant of lines 166-222: a pusher:error frame is not decoded.
HandshakeErrorUndecoded(f) ==
    IF f.err # "nil" THEN Err("receive")
    ELSE IF f.event = pusherConnEstablished
         THEN (IF f.valid THEN Nil ELSE Err("decode"))
    ELSE [kind |-> "unknown event", event |-> f.event]

\* connectInternal, lines 166-222: the error the first frame makes it return
HandshakeError(f) ==
    IF f.err # "nil" THEN Err("receive")
    ELSE IF f.event = pusherError THEN extractEventError(f)
    ELSE IF f.event = pusherConnEstablished
         THEN (IF f.valid THEN Nil ELSE Err("decode"))
    ELSE [kind |-> "unknown event", event |-> f.event]

\* A faulty variant of lines 442-449: the prefixes without their dash.
VariantByWord(name) ==
    IF HasPrefix(name, SubSeq(PrivatePrefix, 1, Len(PrivatePrefix) - 1)) THEN "private"
    ELSE IF HasPrefix(name, SubSeq(PresencePrefix, 1, Len(PresencePrefix) - 1))
         THEN "presence"
    ELSE "public"

\* Subscribe, lines 442-449: the variant of a new channel
VariantOf(name) ==
    IF HasPrefix(name, PrivatePrefix) THEN "private"
    ELSE IF HasPrefix(name, PresencePrefix) THEN "presence"
    ELSE "public"

NewChannel(name) == [name |-> name, kind |-> VariantOf(name), subscribed |-> FALSE]

\* channel.ResetSubscriptionState
ResetSubscriptionState(ch) == [ch EXCEPT !.subscribed = FALSE]

\* channel.Subscribe: nothing to do when subscribed; a private or presence
\* channel is authorized first; then one pusher:subscribe is sent with SendEvent.
\* The result: the error, whether SendEvent was called, whether a frame was written.
ChannelSubscribe(ch, authOK, writeOK) ==
    IF ch.subscribed THEN [err |-> Nil, called |-> FALSE, sent |-> FALSE]
    ELSE IF ch.kind # "public" /\ ~authOK
         THEN [err |-> Err("auth"), called |-> FALSE, sent |-> FALSE]
    ELSE IF writeOK THEN [err |-> Nil, called |-> TRUE, sent |-> TRUE]
    ELSE [err |-> Err("send"), called |-> TRUE, sent |-> FALSE]

SubscribeFrame(name) == [event |-> pusherSubscribe, channel |-> name]
UnsubscribeFrame(name) == [event |-> pusherUnsubscribe, channel |-> name]
PingFrame == [event |-> pusherPing, channel |-> <<>>]
PongFrame == [event |-> pusherPong, channel |-> <<>>]

\* A write to transport w: an open one takes it, a closed one refuses it, one the
\* peer has left may do either.
WriteOutcomes(w) ==
    IF conn[w] = "open" THEN {TRUE}
    ELSE IF conn[w] = "lost" THEN {TRUE, FALSE}
    ELSE {FALSE}

\* A faulty variant of lines 363-366: a send that waits for a consumer, and so
\* takes room that is not there.
sendBlocking(room) == IF c.Errors = "nil" THEN room ELSE room - 1

\* sendError, lines 358-367: the room left in the sink after n calls
sendError(room) ==
    IF c.Errors = "nil" THEN room
    ELSE IF room > 0 THEN room - 1
    ELSE room
RECURSIVE sendErrors(_, _)
sendErrors(room, n) == IF n = 0 THEN room ELSE sendErrors(sendError(room), n - 1)

\* the registry as a map
Registered == DOMAIN c.subscribedChannels
MapPut(m, k, v) == [x \in DOMAIN m \cup {k} |-> IF x = k THEN v ELSE m[x]]
MapDelete(m, k) == IF DOMAIN m \subseteq {k} THEN <<>>
                   ELSE [x \in DOMAIN m \ {k} |-> m[x]]

\* ------------------------------------------------------------ observation
NoFirst == FirstFrame("", FALSE, NoEst, NoErr)
Ev0 == [op |-> "step", by |-> Free, ret |-> Nil, frame |-> NoFirst,
        wrote |-> EmptyBag, emit |-> <<>>, name |-> <<>>, ch |-> 0,
        was |-> FALSE, delay |-> 0, prev |-> 0, denied |-> {}, reg |-> <<>>,
        event |-> "", sink |-> 0, to |-> {}, data |-> NoFrame, bound |-> <<>>,
        room |-> 0, pending |-> 0, on |-> 0]
Wrote(w, frame) == SetToBag({<<w, frame>>})

Idle == [pc |-> "idle", name |-> <<>>, ch |-> 0, via |-> ""]

\* ------------------------------------------------------------------- Init
\* A timer: its state, and the duration it was last armed for.
NoTimers == [act |-> "none", pong |-> "none", actFor |-> 0, pongFor |-> 0]
Client0 ==
    [connected |-> FALSE, ws |-> 0, done |-> 0, socketID |-> <<"", 0>>,
     activityTimeout |-> 0, activityTimer |-> 0, activityTimerReset |-> 0,
     pongTimer |-> 0, pongReceived |-> 0, pongFailures |-> 0, pongTimeout |-> 0,
     ReconnectDelay |-> 0, nilMaps |-> {"boundEvents", "subscribedChannels"},
     subscribedChannels |-> <<>>, boundEvents |-> <<>>, Errors |-> "nil"]

\* No sink is bound, no frame has been delivered.
Fan0 == [sinks |-> <<>>, log |-> <<>>]

Init ==
    /\ \E e \in {"nil", "chan"} :
          c = [Client0 EXCEPT !.Errors = e]
    /\ mutex = Free
    /\ conn = [w \in Sessions |-> "unused"]
    /\ doneClosed = {}
    /\ timers = [s \in Sessions |-> NoTimers]
    /\ resetChans = [s \in Sessions |-> NoChan]
    /\ pongChans = [s \in Sessions |-> NoChan]
    /\ channels = <<>>
    /\ errRoom = 0
    /\ proc = [p \in Procs |-> NoProc]
    /\ usr = [t \in Threads |-> Idle]
    /\ life = "new"
    /\ abandoned = FALSE
    /\ closes = 0
    /\ losses = 0
    /\ ev = Ev0
    /\ panicked = FALSE
    /\ fan = Fan0

\* ------------------------------------------------------- connectInternal
FreshConns == {w \in Sessions : conn[w] = "unused"}
NextConn == CHOOSE w \in FreshConns : \A v \in FreshConns : w <= v

\* line 160: websocket.Dial succeeds, or fails and leaves c.ws nil
DialOK(cc) ==
    /\ FreshConns # {}
    /\ conn' = [conn EXCEPT ![NextConn] = "open"]
    /\ c' = [cc EXCEPT !.ws = NextConn]
DialFail(cc) ==
    /\ conn' = conn
    /\ c' = [cc EXCEPT !.ws = 0]

\* line 166: what Receive returns for the first frame
FirstReceive == IF conn[c.ws] = "open" THEN FirstFrames(c.ws) ELSE {RecvFailed}

\* lines 180-200: the fields a successful handshake sets
EstablishedClient(f) ==
    [c EXCEPT !.connected = TRUE, !.done = c.ws, !.socketID = f.socket_id,
              !.activityTimeout = ActivityTimeoutOf(f),
              !.activityTimer = c.ws, !.activityTimerReset = c.ws,
              !.pongTimer = c.ws, !.pongReceived = c.ws, !.nilMaps = {}]

\* lines 202-217: every registered channel is reset, then subscribed again
Restricted == {n \in Registered : channels[c.subscribedChannels[n]].kind # "public"}
\* A faulty variant of lines 204-207: the subscription state is kept.
UnresetChannel(ch) == ch
RestoredChannel(ch) == ResetSubscriptionState(ch)
Restored(n, authFail) ==
    ChannelSubscribe(RestoredChannel(channels[c.subscribedChannels[n]]),
                     n \notin authFail, TRUE)
RestoreWrites(w, authFail) ==
    LET sent == {n \in Registered : Restored(n, authFail).sent}
    IN  [x \in {<<w, SubscribeFrame(n)>> : n \in sent} |-> 1]

\* lines 209-210: go c.heartbeat(); go c.listen()
Spawn(pr, w) == [pr EXCEPT ![<<"H", w>>] = At("top"), ![<<"L", w>>] = At("top")]

Establish(f, authFail) ==
    LET w == c.ws
        called == \E n \in Registered : Restored(n, authFail).called
    IN  /\ c' = EstablishedClient(f)
        /\ timers' = [timers EXCEPT ![w] = [act |-> "running", pong |-> "stopped",
                                            actFor |-> ActivityTimeoutOf(f),
                                            pongFor |-> c.pongTimeout]]
        /\ resetChans' = [resetChans EXCEPT
                            ![w] = IF called THEN TrySend(NewResetChan) ELSE NewResetChan]
        /\ pongChans' = [pongChans EXCEPT ![w] = NewPongChan]
        /\ channels' = [i \in DOMAIN channels |->
                          IF \E n \in Registered : c.subscribedChannels[n] = i
                          THEN RestoredChannel(channels[i]) ELSE channels[i]]

\* ------------------------------------------------------ Connect, Disconnect
LoopPcs == {"rc_close", "rc_backoff", "rc_sleep", "rc_hs"}
Reconnecting == \E p \in Procs : proc[p].pc \in LoopPcs

Panic ==
    /\ panicked' = TRUE
    /\ ev' = [Ev0 EXCEPT !.op = "panic"]
    /\ UNCHANGED <<c, mutex, conn, doneClosed, timers, resetChans, pongChans,
                   channels, errRoom, proc, usr, life, abandoned, closes, losses,
                   fan>>

\* Connect, lines 145-154, up to the dial of connectInternal
ConnectDial ==
    /\ ~panicked /\ usr[Caller].pc = "idle" /\ life \in {"new", "down"}
    /\ mutex = Free
    /\ LET cc == [c EXCEPT !.pongTimeout = defaultPongTimeout,
                           !.ReconnectDelay = initialReconnectDelay,
                           !.pongFailures = 0]
       IN  \/ /\ DialOK(cc)
              /\ mutex' = Caller
              /\ usr' = [usr EXCEPT ![Caller].pc = "conn_hs"]
              /\ life' = life
              /\ ev' = [Ev0 EXCEPT !.op = "Connect.dial", !.by = Caller]
           \/ /\ DialFail(cc)
              /\ UNCHANGED <<mutex, usr>>
              /\ life' = "down"
              /\ ev' = [Ev0 EXCEPT !.op = "Connect", !.by = Caller, !.ret = Err("dial")]
    /\ abandoned' = FALSE /\ closes' = 0
    /\ UNCHANGED <<doneClosed, timers, resetChans, pongChans, channels, errRoom,
                   proc, losses, panicked, fan>>

\* Connect: the rest of connectInternal, and the return
ConnectHandshake ==
    /\ ~panicked /\ usr[Caller].pc = "conn_hs"
    /\ \E f \in FirstReceive :
         IF HandshakeError(f) = Nil
         THEN \E authFail \in SUBSET Restricted :
                /\ Establish(f, authFail)
                /\ proc' = Spawn(proc, c.ws)
                /\ life' = "up"
                /\ ev' = [Ev0 EXCEPT !.op = "Connect", !.by = Caller, !.frame = f,
                                     !.was = c.connected, !.denied = authFail,
                                     !.wrote = RestoreWrites(c.ws, authFail)]
         ELSE /\ UNCHANGED <<c, timers, resetChans, pongChans, channels, proc>>
              /\ life' = "down"
              /\ ev' = [Ev0 EXCEPT !.op = "Connect", !.by = Caller, !.frame = f,
                                   !.was = c.connected,
                                   !.ret = HandshakeError(f)]
    /\ mutex' = Free
    /\ usr' = [usr EXCEPT ![Caller].pc = "idle"]
    /\ UNCHANGED <<conn, doneClosed, errRoom, abandoned, closes, losses, panicked, fan>>

\* Disconnect, lines 546-560
DisconnectPanics == c.connected /\ (c.ws = 0 \/ c.done \in doneClosed)
Disconnect ==
    /\ ~panicked /\ usr[Caller].pc = "idle" /\ life # "new"
    /\ mutex = Free
    /\ IF DisconnectPanics THEN Panic
       ELSE /\ IF ~c.connected
               THEN /\ UNCHANGED <<c, conn, doneClosed>>
                    /\ ev' = [Ev0 EXCEPT !.op = "Disconnect", !.by = Caller]
               ELSE /\ doneClosed' = IF c.done # 0 THEN doneClosed \cup {c.done}
                                     ELSE doneClosed
                    /\ c' = [c EXCEPT !.connected = FALSE]
                    /\ conn' = [conn EXCEPT ![c.ws] = "closed"]
                    /\ ev' = [Ev0 EXCEPT !.op = "Disconnect", !.by = Caller,
                                !.was = TRUE,
                                !.ret = IF conn[c.ws] = "closed" THEN Err("close")
                                        ELSE Nil]
            /\ life' = "down"
            /\ abandoned' = (abandoned \/ Reconnecting)
            /\ closes' = IF c.connected THEN closes + 1 ELSE closes
            /\ UNCHANGED <<mutex, timers, resetChans, pongChans, channels, errRoom,
                           proc, usr, losses, panicked, fan>>

\* The peer closes transport w, or the network drops it.
Lose(w) ==
    /\ ~panicked /\ conn[w] = "open" /\ losses < MaxLoss
    /\ conn' = [conn EXCEPT ![w] = "lost"]
    /\ losses' = losses + 1
    /\ ev' = Ev0
    /\ UNCHANGED <<c, mutex, doneClosed, timers, resetChans, pongChans, channels,
                   errRoom, proc, usr, life, abandoned, closes, panicked, fan>>

\* A consumer gets ready to receive from c.Errors, or takes an error from it.
ErrorsReady ==
    /\ ~panicked /\ c.Errors # "nil" /\ errRoom < ErrCap
    /\ errRoom' = errRoom + 1
    /\ ev' = Ev0
    /\ UNCHANGED <<c, mutex, conn, doneClosed, timers, resetChans, pongChans,
                   channels, proc, usr, life, abandoned, closes, losses, panicked, fan>>

\* ------------------------------------------------------------------ listen
\* The frames a server sends on an established transport.
Frame(event, channel) == [NoFrame EXCEPT !.event = event, !.channel = channel]
ControlFrames ==
    {Frame(pusherPing, <<>>), Frame(pusherPong, <<>>),
     [Frame(pusherError, <<>>) EXCEPT !.code = 4001, !.message = "bar"]}
ChannelFrames == {Frame(pusherInternalSubSucceeded, n) : n \in Registered}
ServerFrames == ControlFrames \cup ChannelFrames
\* Events of the application, sent on no channel or on the channel "foo"; code
\* stands for their data, a serial number.
DataFrames ==
    {[Frame(e, n) EXCEPT !.code = i] : e \in Events, n \in {<<>>, Foo}, i \in 1..MaxFrames}
\* A faulty variant of lines 394-405: pusher:error is routed like any other event.
IsControlButError(f) == f.event \in {pusherPing, pusherPong}

\* lines 394-405: the events the switch does not route to sinks and handlers
IsControl(f) == f.event \in {pusherPing, pusherPong, pusherError}
\* A pusher:ping and a pusher:error that name the channel "foo".
ControlFramesOn ==
    {[f EXCEPT !.channel = Foo] : f \in {g \in ControlFrames : g.event # pusherPong}}

\* A faulty variant of lines 233-238: a send that does not look at the room.
resetAlways(chans) ==
    IF c.activityTimerReset = 0 THEN chans
    ELSE [chans EXCEPT ![c.activityTimerReset].len = @ + 1]

\* A faulty variant of lines 232-239: no request is made.
resetNever(chans) == chans

\* resetActivityTimer, lines 232-239
resetActivityTimer(chans) ==
    IF c.activityTimerReset = 0 THEN chans
    ELSE [chans EXCEPT ![c.activityTimerReset] = TrySend(@)]

\* channel.handleEvent: a channel is subscribed once the server confirms it
handleEvent(ch, event) ==
    IF event = pusherInternalSubSucceeded THEN [ch EXCEPT !.subscribed = TRUE] ELSE ch

\* lines 370-376: the loop condition, the check of c.done, the call of Receive
ListenTop(s) ==
    LET p == <<"L", s>> IN
    /\ ~panicked /\ proc[p].pc = "top" /\ mutex = Free
    /\ IF c.connected /\ c.done \notin doneClosed /\ c.ws = 0 THEN Panic
       ELSE /\ proc' = [proc EXCEPT ![p] =
                          IF ~c.connected \/ c.done \in doneClosed THEN Exited
                          ELSE [At("recv") EXCEPT !.b = c.ws]]
            /\ ev' = Ev0
            /\ UNCHANGED <<c, mutex, conn, doneClosed, timers, resetChans, pongChans,
                           channels, errRoom, usr, life, abandoned, closes, losses,
                           panicked, fan>>

\* line 376: Receive returns a frame
ListenRecv(s, f) ==
    LET p == <<"L", s>> IN
    /\ ~panicked /\ proc[p].pc = "recv" /\ conn[proc[p].b] = "open"
    /\ f \in ServerFrames \cup DataFrames \cup ControlFramesOn
    /\ proc' = [proc EXCEPT ![p] = [At("frame") EXCEPT !.x = f, !.b = proc[p].b]]
    /\ ev' = Ev0
    /\ UNCHANGED <<c, mutex, conn, doneClosed, timers, resetChans, pongChans,
                   channels, errRoom, usr, life, abandoned, closes, losses,
                   panicked, fan>>

\* line 376: Receive returns an error: io.EOF once the peer has left, another
\* error on a transport that was closed here
ReceiveErrors(w) == IF conn[w] = "lost" THEN {"EOF", "other"} ELSE {"other"}
ListenRecvFails(s) ==
    LET p == <<"L", s>> IN
    /\ ~panicked /\ proc[p].pc = "recv" /\ conn[proc[p].b] # "open"
    /\ \E e \in ReceiveErrors(proc[p].b) :
          proc' = [proc EXCEPT ![p] = [At("err") EXCEPT !.x.err = e, !.b = proc[p].b]]
    /\ ev' = Ev0
    /\ UNCHANGED <<c, mutex, conn, doneClosed, timers, resetChans, pongChans,
                   channels, errRoom, usr, life, abandoned, closes, losses,
                   panicked, fan>>

\* lines 377-390: a read error
ListenErr(s) ==
    LET p == <<"L", s>> IN
    /\ ~panicked /\ proc[p].pc = "err" /\ mutex = Free
    /\ IF ~c.connected
       THEN /\ proc' = [proc EXCEPT ![p] = Exited]
            /\ errRoom' = errRoom
            /\ ev' = [Ev0 EXCEPT !.op = "listen.closed", !.by = p]
       ELSE /\ proc' = [proc EXCEPT ![p] =
                          IF proc[p].x.err = "EOF"
                          THEN [At("reconn") EXCEPT !.b = proc[p].b] ELSE At("top")]
            /\ errRoom' = sendError(errRoom)
            /\ ev' = [Ev0 EXCEPT !.op = "listen.error", !.by = p, !.room = errRoom,
                                 !.emit = <<Err(proc[p].x.err)>>]
    /\ UNCHANGED <<c, mutex, conn, doneClosed, timers, resetChans, pongChans,
                   channels, usr, life, abandoned, closes, losses, panicked, fan>>

\* The sinks a bindings map holds for an event (a missing key reads as nil).
SinksOf(m, e) == IF e \in DOMAIN m THEN m[e] ELSE {}

\* A sink: the event it was bound to, the events that delivery goroutines are
\* blocked sending to it, and the events its consumer has received.
NewSink(e) == [event |-> e, pending |-> <<>>, got |-> <<>>]

\* A faulty variant of lines 407-411: a delivery to every sink there is.
DeliverToAll(sinks, f, targets) ==
    [k \in DOMAIN sinks |-> [sinks[k] EXCEPT !.pending = Append(@, f)]]

\* lines 407-411: one goroutine per bound sink, each blocked on its send
StartDeliveries(sinks, f, targets) ==
    [k \in DOMAIN sinks |->
        IF k \in targets THEN [sinks[k] EXCEPT !.pending = Append(@, f)] ELSE sinks[k]]

\* A faulty variant of lines 408-410: the dispatcher itself sends to the sinks.
AfterInlineDelivery(targets) == IF targets = {} THEN At("top") ELSE At("deliver")

\* lines 408-410 and 415-418: the sends are left to the goroutines, the loop goes on
AfterDispatch(targets) == At("top")

\* lines 392-416: a frame
ListenFrame(s) ==
    LET p == <<"L", s>>
        f == proc[p].x
        id == IF f.channel \in Registered THEN c.subscribedChannels[f.channel] ELSE 0
        targets == IF IsControl(f) THEN {} ELSE SinksOf(c.boundEvents, f.event)
    IN
    /\ ~panicked /\ proc[p].pc = "frame"
    /\ f.event \notin {pusherPing, pusherPong, pusherError} => mutex = Free
    /\ IF f.event = pusherPing /\ c.ws = 0 THEN Panic
       ELSE /\ resetChans' = resetActivityTimer(resetChans)
            /\ proc' = [proc EXCEPT ![p] = IF IsControl(f) THEN At("top")
                                           ELSE AfterDispatch(targets)]
            /\ \E ok \in IF f.event = pusherPing THEN WriteOutcomes(c.ws) ELSE {FALSE} :
                 ev' = [Ev0 EXCEPT !.op = "listen.frame", !.by = p, !.data = f,
                          !.on = proc[p].b,
                          !.wrote = IF ok THEN Wrote(c.ws, PongFrame) ELSE EmptyBag,
                          !.emit = IF f.event = pusherError
                                   THEN <<extractEventError(f)>> ELSE <<>>,
                          !.to = targets,
                          !.ch = IF IsControl(f) THEN 0 ELSE id,
                          !.was = c.connected,
                          !.room = errRoom,
                          !.pending = IF c.activityTimerReset = 0 THEN 0
                                      ELSE resetChans[c.activityTimerReset].len]
            /\ pongChans' = IF f.event = pusherPong /\ c.pongReceived # 0
                            THEN [pongChans EXCEPT ![c.pongReceived] = TrySend(@)]
                            ELSE pongChans
            /\ errRoom' = IF f.event = pusherError THEN sendError(errRoom) ELSE errRoom
            /\ channels' = IF f.event \notin {pusherPing, pusherPong, pusherError}
                              /\ id # 0
                           THEN [channels EXCEPT ![id] = handleEvent(@, f.event)]
                           ELSE channels
            /\ fan' = IF targets = {} THEN fan
                      ELSE [sinks |-> StartDeliveries(fan.sinks, f, targets),
                            log |-> Append(fan.log, [frame |-> f, to |-> targets])]
            /\ UNCHANGED <<c, mutex, conn, doneClosed, timers, usr, life, abandoned,
                           closes, losses, panicked>>

\* A consumer receives from sink k the event of one of the goroutines blocked on it.
SinkReceive(k, i) ==
    /\ ~panicked /\ k \in DOMAIN fan.sinks /\ i \in DOMAIN fan.sinks[k].pending
    /\ LET q == fan.sinks[k].pending IN
       /\ fan' = [fan EXCEPT !.sinks[k] =
                    [@ EXCEPT !.pending = SubSeq(q, 1, i - 1) \o SubSeq(q, i + 1, Len(q)),
                              !.got = Append(@, q[i])]]
       /\ ev' = [Ev0 EXCEPT !.op = "sink.receive", !.sink = k, !.data = q[i]]
    /\ UNCHANGED <<c, mutex, conn, doneClosed, timers, resetChans, pongChans,
                   channels, errRoom, proc, usr, life, abandoned, closes, losses,
                   panicked>>

\* -------------------------------------------------------- attemptReconnect
\* lines 308-322
ReconnectEnter(p) ==
    /\ ~panicked /\ proc[p].pc = "reconn" /\ mutex = Free
    /\ IF c.connected /\ c.done \in doneClosed THEN Panic
       ELSE /\ IF ~c.connected
               THEN /\ proc' = [proc EXCEPT ![p] = Exited]
                    /\ UNCHANGED <<c, doneClosed>>
               ELSE /\ doneClosed' = IF c.done # 0 THEN doneClosed \cup {c.done}
                                     ELSE doneClosed
                    /\ c' = [c EXCEPT !.connected = FALSE]
                    /\ proc' = [proc EXCEPT ![p] = [At("rc_close") EXCEPT !.oldWs = c.ws]]
            /\ ev' = [Ev0 EXCEPT !.op = "attemptReconnect", !.by = p,
                                 !.on = proc[p].b,
                                 !.was = c.connected]
            /\ UNCHANGED <<mutex, conn, timers, resetChans, pongChans, channels,
                           errRoom, usr, life, abandoned, closes, losses, panicked, fan>>

\* line 325
ReconnectClose(p) ==
    /\ ~panicked /\ proc[p].pc = "rc_close"
    /\ IF proc[p].oldWs = 0 THEN Panic
       ELSE /\ conn' = [conn EXCEPT ![proc[p].oldWs] = "closed"]
            /\ proc' = [proc EXCEPT ![p] = At("rc_backoff")]
            /\ ev' = Ev0
            /\ UNCHANGED <<c, mutex, doneClosed, timers, resetChans, pongChans,
                           channels, errRoom, usr, life, abandoned, closes, losses,
                           panicked, fan>>

\* lines 329-335: the delay of this attempt, the next one, and the sleep
ReconnectBackoff(p) ==
    /\ ~panicked /\ proc[p].pc = "rc_backoff" /\ mutex = Free
    /\ c' = [c EXCEPT !.ReconnectDelay = NextReconnectDelay(c.ReconnectDelay)]
    /\ proc' = [proc EXCEPT ![p] = [At("rc_sleep") EXCEPT !.delay = c.ReconnectDelay]]
    /\ errRoom' = sendError(errRoom)
    /\ ev' = [Ev0 EXCEPT !.op = "backoff", !.by = p, !.delay = c.ReconnectDelay,
                         !.room = errRoom,
                         !.prev = proc[p].delay,
                         !.emit = <<Err("attempting reconnection")>>]
    /\ UNCHANGED <<mutex, conn, doneClosed, timers, resetChans, pongChans, channels,
                   usr, life, abandoned, closes, losses, panicked, fan>>

\* What the loop does after an attempt failed (lines 344-347), and after one
\* succeeded (lines 339-343).  GiveUp is a faulty variant: a loop that returns
\* after a failed attempt.
GiveUp(pr) == Exited
AfterFailedAttempt(pr) == [At("rc_backoff") EXCEPT !.delay = pr.delay]
AfterSuccessfulAttempt(pr) == Exited

\* lines 337-338: after the sleep, the lock and the dial of connectInternal
ReconnectDial(p) ==
    /\ ~panicked /\ proc[p].pc = "rc_sleep" /\ mutex = Free
    /\ \/ /\ DialOK(c)
          /\ mutex' = p
          /\ proc' = [proc EXCEPT ![p].pc = "rc_hs"]
          /\ errRoom' = errRoom
          /\ ev' = [Ev0 EXCEPT !.op = "reconnect.dial", !.by = p]
       \/ /\ DialFail(c)
          /\ mutex' = mutex
          /\ proc' = [proc EXCEPT ![p] = AfterFailedAttempt(proc[p])]
          /\ errRoom' = sendError(errRoom)
          /\ ev' = [Ev0 EXCEPT !.op = "reconnect", !.by = p, !.ret = Err("dial"),
                               !.room = errRoom,
                               !.delay = proc[p].delay,
                               !.emit = <<Err("reconnection failed")>>]
    /\ UNCHANGED <<doneClosed, timers, resetChans, pongChans, channels, usr, life,
                   abandoned, closes, losses, panicked, fan>>

\* lines 338-346: the rest of connectInternal, and what the loop makes of it
ReconnectHandshake(p) ==
    /\ ~panicked /\ proc[p].pc = "rc_hs"
    /\ \E f \in FirstReceive :
         IF HandshakeError(f) = Nil
         THEN \E authFail \in SUBSET Restricted :
                /\ Establish(f, authFail)
                /\ proc' = [Spawn(proc, c.ws) EXCEPT ![p] = AfterSuccessfulAttempt(proc[p])]
                /\ ev' = [Ev0 EXCEPT !.op = "reconnect", !.by = p, !.frame = f,
                                     !.delay = proc[p].delay, !.denied = authFail,
                                     !.room = errRoom,
                                     !.wrote = RestoreWrites(c.ws, authFail),
                                     !.emit = <<Err("reconnection successful")>>]
         ELSE /\ UNCHANGED <<c, timers, resetChans, pongChans, channels>>
              /\ proc' = [proc EXCEPT ![p] = AfterFailedAttempt(proc[p])]
              /\ ev' = [Ev0 EXCEPT !.op = "reconnect", !.by = p, !.frame = f,
                                   !.delay = proc[p].delay, !.room = errRoom,
                                   !.ret = HandshakeError(f),
                                   !.emit = <<Err("reconnection failed")>>]
    /\ mutex' = Free
    /\ errRoom' = sendError(errRoom)
    /\ UNCHANGED <<conn, doneClosed, usr, life, abandoned, closes, losses, panicked, fan>>

\* --------------------------------------------------------------- heartbeat
FreeWaiters == {k \in 1..MaxPings : proc[<<"W", k>>].pc = "none"}
NextWaiter == CHOOSE k \in FreeWaiters : \A j \in FreeWaiters : k <= j

\* line 242, and the select of line 243 taking its channels from the fields
HeartbeatTop(s) ==
    LET p == <<"H", s>> IN
    /\ ~panicked /\ proc[p].pc = "top" /\ mutex = Free
    /\ proc' = [proc EXCEPT ![p] = IF c.connected THEN [At("sel") EXCEPT !.b = c.done]
                                   ELSE Exited]
    /\ ev' = Ev0
    /\ UNCHANGED <<c, mutex, conn, doneClosed, timers, resetChans, pongChans,
                   channels, errRoom, usr, life, abandoned, closes, losses, panicked, fan>>

\* lines 244-245
HeartbeatDone(s) ==
    LET p == <<"H", s>> IN
    /\ ~panicked /\ proc[p].pc = "sel" /\ proc[p].b \in doneClosed
    /\ proc' = [proc EXCEPT ![p] = Exited]
    /\ ev' = [Ev0 EXCEPT !.op = "heartbeat.done", !.by = p]
    /\ UNCHANGED <<c, mutex, conn, doneClosed, timers, resetChans, pongChans,
                   channels, errRoom, usr, life, abandoned, closes, losses, panicked, fan>>

\* lines 246-253: a reset request; Stop, the drain of a timer that fired, Reset
HeartbeatReset(s) ==
    LET p == <<"H", s>>
        b == proc[p].b
        t == c.activityTimer
    IN
    /\ ~panicked /\ proc[p].pc = "sel" /\ resetChans[b].len > 0
    /\ resetChans' = [resetChans EXCEPT ![b].len = @ - 1]
    /\ IF t = 0 THEN /\ proc' = [proc EXCEPT ![p] = Exited]
                     /\ timers' = timers
       ELSE IF timers[t].act = "idle"
       THEN /\ proc' = [proc EXCEPT ![p] = [At("drain") EXCEPT !.b = t]]
            /\ timers' = timers
       ELSE /\ proc' = [proc EXCEPT ![p] = At("top")]
            /\ timers' = [timers EXCEPT ![t].act = "running",
                                        ![t].actFor = c.activityTimeout]
    /\ ev' = [Ev0 EXCEPT !.op = "heartbeat.reset", !.by = p]
    /\ UNCHANGED <<c, mutex, conn, doneClosed, pongChans, channels, errRoom, usr,
                   life, abandoned, closes, losses, panicked, fan>>

\* line 251 blocking on a timer that another heartbeat has drained, then line 253
HeartbeatDrain(s) ==
    LET p == <<"H", s>>
        b == proc[p].b
    IN
    /\ ~panicked /\ proc[p].pc = "drain" /\ timers[b].act = "fired"
    /\ c.activityTimer # 0
    /\ timers' = [[timers EXCEPT ![b].act = "idle"]
                      EXCEPT ![c.activityTimer].act = "running",
                             ![c.activityTimer].actFor = c.activityTimeout]
    /\ proc' = [proc EXCEPT ![p] = At("top")]
    /\ ev' = [Ev0 EXCEPT !.op = "heartbeat.reset", !.by = p]
    /\ UNCHANGED <<c, mutex, conn, doneClosed, resetChans, pongChans, channels,
                   errRoom, usr, life, abandoned, closes, losses, panicked, fan>>

\* lines 255-302: the activity timer fired; the ping, the pong timer, the waiter
HeartbeatPing(s) ==
    LET p == <<"H", s>>
        b == proc[p].b
    IN
    /\ ~panicked /\ proc[p].pc = "sel" /\ timers[b].act = "fired"
    /\ IF c.ws = 0 THEN Panic
       ELSE \E ok \in WriteOutcomes(c.ws) :
            /\ IF ~ok
               THEN /\ proc' = [proc EXCEPT ![p] = [At("reconn") EXCEPT !.b = c.ws]]
                    /\ timers' = [timers EXCEPT ![b].act = "idle"]
                    /\ ev' = [Ev0 EXCEPT !.op = "heartbeat.ping", !.by = p,
                                         !.ret = Err("send")]
               ELSE IF c.pongTimer = 0
               THEN /\ proc' = [proc EXCEPT ![p] = Exited]
                    /\ timers' = [timers EXCEPT ![b].act = "idle"]
                    /\ ev' = [Ev0 EXCEPT !.op = "heartbeat.ping", !.by = p,
                                         !.wrote = Wrote(c.ws, PingFrame)]
               ELSE /\ FreeWaiters # {}
                    /\ proc' = [proc EXCEPT ![p] = At("top"),
                                            ![<<"W", NextWaiter>>] = At("start")]
                    /\ timers' = [[[timers EXCEPT ![b].act = "idle"]
                                      EXCEPT ![c.pongTimer].pong = "running",
                                             ![c.pongTimer].pongFor = c.pongTimeout]
                                      EXCEPT ![c.activityTimer].act = "running",
                                             ![c.activityTimer].actFor = c.activityTimeout]
                    /\ ev' = [Ev0 EXCEPT !.op = "heartbeat.ping", !.by = p,
                                         !.wrote = Wrote(c.ws, PingFrame)]
            /\ UNCHANGED <<c, mutex, conn, doneClosed, resetChans, pongChans, channels,
                           errRoom, usr, life, abandoned, closes, losses, panicked, fan>>

\* lines 255-302 once more, when every waiter the model keeps is already blocked
\* on the channels of this session: the waiter this ping starts blocks on the
\* same channels as they do and is not told apart from them.
HeartbeatPingAgain(s) ==
    LET p == <<"H", s>>
        b == proc[p].b
    IN
    /\ ~panicked /\ proc[p].pc = "sel" /\ timers[b].act = "fired"
    /\ c.ws # 0 /\ TRUE \in WriteOutcomes(c.ws) /\ c.pongTimer # 0
    /\ FreeWaiters = {}
    /\ \A k \in 1..MaxPings :
          proc[<<"W", k>>].pc = "wait" /\ proc[<<"W", k>>].b = c.pongReceived
    /\ proc' = [proc EXCEPT ![p] = At("top")]
    /\ timers' = [[[timers EXCEPT ![b].act = "idle"]
                      EXCEPT ![c.pongTimer].pong = "running",
                             ![c.pongTimer].pongFor = c.pongTimeout]
                      EXCEPT ![c.activityTimer].act = "running",
                             ![c.activityTimer].actFor = c.activityTimeout]
    /\ ev' = [Ev0 EXCEPT !.op = "heartbeat.ping", !.by = p,
                         !.wrote = Wrote(c.ws, PingFrame)]
    /\ UNCHANGED <<c, mutex, conn, doneClosed, resetChans, pongChans, channels,
                   errRoom, usr, life, abandoned, closes, losses, panicked, fan>>

\* Time passes: a running timer that a goroutine can still wait on fires.
Watched(s) ==
    \/ c.done = s /\ c.connected
    \/ \E p \in Procs : proc[p].pc \in {"sel", "drain", "wait"} /\ proc[p].b = s
ActivityTimerFires(s) ==
    /\ ~panicked /\ timers[s].act = "running" /\ Watched(s)
    /\ timers' = [timers EXCEPT ![s].act = "fired"]
    /\ ev' = Ev0
    /\ UNCHANGED <<c, mutex, conn, doneClosed, resetChans, pongChans, channels,
                   errRoom, proc, usr, life, abandoned, closes, losses, panicked, fan>>
PongTimerFires(s) ==
    /\ ~panicked /\ timers[s].pong = "running" /\ Watched(s)
    /\ timers' = [timers EXCEPT ![s].pong = "fired"]
    /\ ev' = Ev0
    /\ UNCHANGED <<c, mutex, conn, doneClosed, resetChans, pongChans, channels,
                   errRoom, proc, usr, life, abandoned, closes, losses, panicked, fan>>

\* ------------------------------------------------------------ pong waiter
\* line 277: the select takes its channels from the fields
WaiterStart(k) ==
    LET p == <<"W", k>> IN
    /\ ~panicked /\ proc[p].pc = "start"
    /\ proc' = [proc EXCEPT ![p] = IF c.pongReceived = 0 THEN Exited
                                   ELSE [At("wait") EXCEPT !.b = c.pongReceived]]
    /\ ev' = Ev0
    /\ UNCHANGED <<c, mutex, conn, doneClosed, timers, resetChans, pongChans,
                   channels, errRoom, usr, life, abandoned, closes, losses, panicked, fan>>

\* lines 281-282: what the arrival of the pong makes of the counters.
\* AfterPongKeepsCount is a faulty variant: it leaves the failure count.
AfterPongKeepsCount(cl) == [cl EXCEPT !.ReconnectDelay = initialReconnectDelay]
AfterPong(cl) == [cl EXCEPT !.pongFailures = 0, !.ReconnectDelay = initialReconnectDelay]

\* lines 278-283: the pong arrived
WaiterPong(k) ==
    LET p == <<"W", k>>
        b == proc[p].b
    IN
    /\ ~panicked /\ proc[p].pc = "wait" /\ pongChans[b].len > 0 /\ mutex = Free
    /\ pongChans' = [pongChans EXCEPT ![b].len = @ - 1]
    /\ c' = AfterPong(c)
    /\ proc' = [proc EXCEPT ![p] = Exited]
    /\ ev' = [Ev0 EXCEPT !.op = "pong", !.by = p, !.prev = c.pongFailures,
                         !.delay = c.ReconnectDelay]
    /\ UNCHANGED <<mutex, conn, doneClosed, timers, resetChans, channels, errRoom,
                   usr, life, abandoned, closes, losses, panicked, fan>>

\* lines 284-296: the pong timer fired
WaiterTimeout(k) ==
    LET p == <<"W", k>>
        b == proc[p].b
        n == c.pongFailures + 1
    IN
    /\ ~panicked /\ proc[p].pc = "wait" /\ timers[b].pong = "fired" /\ mutex = Free
    /\ timers' = [timers EXCEPT ![b].pong = "stopped"]
    /\ c' = [c EXCEPT !.pongFailures = n]
    /\ proc' = [proc EXCEPT ![p] = IF n >= maxPongFailures
                                   THEN [At("reconn") EXCEPT !.b = b] ELSE Exited]
    /\ errRoom' = sendErrors(errRoom, IF n >= maxPongFailures THEN 2 ELSE 1)
    /\ ev' = [Ev0 EXCEPT !.op = "pong.timeout", !.by = p, !.room = errRoom,
                !.prev = c.pongFailures, !.on = b,
                !.emit = IF n >= maxPongFailures
                         THEN <<Err("pong timeout"), Err("max pong failures")>>
                         ELSE <<Err("pong timeout")>>]
    /\ UNCHANGED <<mutex, conn, doneClosed, resetChans, pongChans, channels, usr,
                   life, abandoned, closes, losses, panicked, fan>>

\* lines 297-298
WaiterDone(k) ==
    LET p == <<"W", k>> IN
    /\ ~panicked /\ proc[p].pc = "wait" /\ proc[p].b \in doneClosed
    /\ proc' = [proc EXCEPT ![p] = Exited]
    /\ ev' = Ev0
    /\ UNCHANGED <<c, mutex, conn, doneClosed, timers, resetChans, pongChans,
                   channels, errRoom, usr, life, abandoned, closes, losses, panicked, fan>>

\* line 300: the goroutine of a wait has returned, and a later ping starts a new
\* one in its place
WaiterReturns(k) ==
    LET p == <<"W", k>> IN
    /\ ~panicked /\ proc[p].pc = "exit"
    /\ proc' = [proc EXCEPT ![p] = NoProc]
    /\ ev' = Ev0
    /\ UNCHANGED <<c, mutex, conn, doneClosed, timers, resetChans, pongChans,
                   channels, errRoom, usr, life, abandoned, closes, losses, panicked, fan>>

\* ------------------------------------------- Subscribe, Unsubscribe
\* The names the callers of a specification use.
SessionNames == {Foo, PrivateFoo}

\* Subscribe, lines 432-449: the lookup, and the new channel when there is none.
\* SubscribePresence, lines 469-473, ends here for a name without the prefix.
SubscribeLookup(t, name, via) ==
    /\ ~panicked /\ usr[t].pc = "idle" /\ life = "up"
    /\ (via = "SubscribePresence" /\ ~HasPrefix(name, PresencePrefix)) \/ mutex = Free
    /\ IF via = "SubscribePresence" /\ ~HasPrefix(name, PresencePrefix)
       THEN /\ UNCHANGED <<usr, channels>>
            /\ ev' = [Ev0 EXCEPT !.op = via, !.by = t, !.name = name,
                                 !.reg = c.subscribedChannels,
                                 !.ret = Err("invalid presence channel name")]
       ELSE IF name \in Registered
       THEN /\ usr' = [usr EXCEPT ![t] = [pc |-> "sub_call", name |-> name,
                                          ch |-> c.subscribedChannels[name], via |-> via]]
            /\ channels' = channels
            /\ ev' = Ev0
       ELSE /\ Len(channels) < MaxObjs
            /\ channels' = Append(channels, NewChannel(name))
            /\ usr' = [usr EXCEPT ![t] = [pc |-> "sub_ins", name |-> name,
                                          ch |-> Len(channels) + 1, via |-> via]]
            /\ ev' = Ev0
    /\ UNCHANGED <<c, mutex, conn, doneClosed, timers, resetChans, pongChans,
                   errRoom, proc, life, abandoned, closes, losses, panicked, fan>>

\* lines 450-452
SubscribeInsert(t) ==
    /\ ~panicked /\ usr[t].pc = "sub_ins" /\ mutex = Free
    /\ IF "subscribedChannels" \in c.nilMaps THEN Panic
       ELSE /\ c' = [c EXCEPT !.subscribedChannels = MapPut(@, usr[t].name, usr[t].ch)]
            /\ usr' = [usr EXCEPT ![t].pc = "sub_call"]
            /\ ev' = Ev0
            /\ UNCHANGED <<mutex, conn, doneClosed, timers, resetChans, pongChans,
                           channels, errRoom, proc, life, abandoned, closes, losses,
                           panicked, fan>>

\* line 455: ch.Subscribe(opts...), and the return
SubscribeCall(t) ==
    LET id == usr[t].ch
        ch == channels[id]
    IN
    /\ ~panicked /\ usr[t].pc = "sub_call"
    /\ \E authOK \in IF ch.kind = "public" \/ ch.subscribed THEN {TRUE} ELSE {TRUE, FALSE} :
         IF ChannelSubscribe(ch, authOK, TRUE).called /\ c.ws = 0 THEN Panic
         ELSE \E ok \in IF ChannelSubscribe(ch, authOK, TRUE).called
                        THEN WriteOutcomes(c.ws) ELSE {TRUE} :
              LET r == ChannelSubscribe(ch, authOK, ok) IN
              /\ resetChans' = IF r.called THEN resetActivityTimer(resetChans)
                               ELSE resetChans
              /\ usr' = [usr EXCEPT ![t] = Idle]
              /\ ev' = [Ev0 EXCEPT !.op = usr[t].via, !.by = t, !.name = usr[t].name,
                          !.ch = id, !.ret = r.err,
                          !.wrote = IF r.sent THEN Wrote(c.ws, SubscribeFrame(ch.name))
                                    ELSE EmptyBag]
              /\ UNCHANGED <<c, mutex, conn, doneClosed, timers, pongChans, channels,
                             errRoom, proc, life, abandoned, closes, losses, panicked, fan>>

\* SendEvent, lines 527-542, called by the application: the reset request of
\* line 539 and the write of line 541, without the lock
SendEvent(t, e) ==
    /\ ~panicked /\ usr[t].pc = "idle"
    /\ IF c.ws = 0 THEN Panic
       ELSE \E ok \in WriteOutcomes(c.ws) :
            /\ resetChans' = resetActivityTimer(resetChans)
            /\ ev' = [Ev0 EXCEPT !.op = "SendEvent", !.by = t, !.event = e,
                        !.ret = IF ok THEN Nil ELSE Err("send"),
                        !.wrote = IF ok THEN Wrote(c.ws, Frame(e, <<>>)) ELSE EmptyBag,
                        !.pending = IF c.activityTimerReset = 0 THEN 0
                                    ELSE resetChans[c.activityTimerReset].len]
            /\ UNCHANGED <<c, mutex, conn, doneClosed, timers, pongChans, channels,
                           errRoom, proc, usr, life, abandoned, closes, losses,
                           panicked, fan>>

\* channel.Unsubscribe: one pusher:unsubscribe is sent with SendEvent
ChannelUnsubscribe(ch) == [ch EXCEPT !.subscribed = FALSE]

\* Unsubscribe, lines 480-491
\* line 489: delete(c.subscribedChannels, channelName); RegistryCleared is a
\* faulty variant that drops every entry.
RegistryCleared(reg, name) == <<>>
RegistryAfterUnsubscribe(reg, name) == MapDelete(reg, name)
Unsubscribe(t, name) ==
    /\ ~panicked /\ usr[t].pc = "idle" /\ life = "up" /\ mutex = Free
    /\ IF name \notin Registered
       THEN /\ UNCHANGED <<c, resetChans, channels>>
            /\ ev' = [Ev0 EXCEPT !.op = "Unsubscribe", !.by = t, !.name = name,
                                 !.reg = c.subscribedChannels]
       ELSE IF c.ws = 0 THEN Panic
       ELSE \E ok \in WriteOutcomes(c.ws) :
            LET id == c.subscribedChannels[name] IN
            /\ c' = [c EXCEPT !.subscribedChannels = RegistryAfterUnsubscribe(@, name)]
            /\ resetChans' = resetActivityTimer(resetChans)
            /\ channels' = [channels EXCEPT ![id] = ChannelUnsubscribe(@)]
            /\ ev' = [Ev0 EXCEPT !.op = "Unsubscribe", !.by = t, !.name = name,
                        !.ch = id, !.was = TRUE, !.reg = c.subscribedChannels,
                        !.ret = IF ok THEN Nil ELSE Err("send"),
                        !.wrote = IF ok THEN Wrote(c.ws, UnsubscribeFrame(name))
                                  ELSE EmptyBag]
    /\ UNCHANGED <<mutex, conn, doneClosed, timers, pongChans, errRoom, proc, usr,
                   life, abandoned, closes, losses, panicked, fan>>

\* ------------------------------------------------------------ Bind, Unbind
\* Bind, lines 501-504: the sink is added to the sinks of its event
AfterBind(m, e, k) == MapPut(m, e, SinksOf(m, e) \cup {k})

\* Bind, lines 495-507.  The store of line 502 panics on the nil map of a client
\* that has completed no handshake.
Bind(t, e) ==
    LET k == Len(fan.sinks) + 1 IN
    /\ ~panicked /\ usr[t].pc = "idle" /\ mutex = Free
    /\ Len(fan.sinks) < MaxSinks
    /\ IF "boundEvents" \in c.nilMaps
       THEN /\ panicked' = TRUE
            /\ ev' = [Ev0 EXCEPT !.op = "Bind", !.by = t, !.event = e,
                                 !.bound = c.boundEvents]
            /\ UNCHANGED <<c, fan>>
       ELSE /\ panicked' = panicked
            /\ c' = [c EXCEPT !.boundEvents = AfterBind(@, e, k)]
            /\ fan' = [fan EXCEPT !.sinks = Append(@, NewSink(e))]
            /\ ev' = [Ev0 EXCEPT !.op = "Bind", !.by = t, !.event = e, !.sink = k,
                                 !.bound = c.boundEvents]
    /\ UNCHANGED <<mutex, conn, doneClosed, timers, resetChans, pongChans, channels,
                   errRoom, proc, usr, life, abandoned, closes, losses>>

\* Unbind, lines 515-523: the key is deleted, or the sinks named are
AfterUnbind(m, e, chans) ==
    IF chans = {} THEN MapDelete(m, e)
    ELSE IF e \in DOMAIN m THEN [m EXCEPT ![e] = @ \ chans]
    ELSE m

\* Unbind, lines 511-524
Unbind(t, e, chans) ==
    /\ ~panicked /\ usr[t].pc = "idle" /\ mutex = Free
    /\ chans \subseteq DOMAIN fan.sinks
    /\ c' = [c EXCEPT !.boundEvents = AfterUnbind(@, e, chans)]
    /\ ev' = [Ev0 EXCEPT !.op = "Unbind", !.by = t, !.event = e, !.to = chans,
                         !.bound = c.boundEvents]
    /\ UNCHANGED <<mutex, conn, doneClosed, timers, resetChans, pongChans, channels,
                   errRoom, proc, usr, life, abandoned, closes, losses, panicked, fan>>

\* ------------------------------------------------------------ specifications
\* The session: one caller connects and disconnects at will, the network drops
\* transports, the dispatcher meets the read errors and reconnects, a consumer
\* reads the error sink.
Next ==
    \/ ConnectDial
    \/ ConnectHandshake
    \/ Disconnect
    \/ \E s \in Sessions : ListenTop(s)
    \/ \E s \in Sessions : ListenRecvFails(s)
    \/ \E s \in Sessions : ListenErr(s)
    \/ \E p \in Procs : ReconnectEnter(p)
    \/ \E p \in Procs : ReconnectClose(p)
    \/ \E p \in Procs : ReconnectBackoff(p)
    \/ \E p \in Procs : ReconnectDial(p)
    \/ \E p \in Procs : ReconnectHandshake(p)
    \/ \E s \in Sessions : Lose(s)
    \/ ErrorsReady

Spec == Init /\ [][Next]_vars

\* The first Connect of a client.
ConnectOnce == life = "new" /\ ConnectDial

\* Restoration: one caller connects once, subscribes and unsubscribes; the
\* server confirms subscriptions and sends control frames; the network drops the
\* transport and the dispatcher reconnects.
NextRestore ==
    \/ ConnectOnce
    \/ ConnectHandshake
    \/ \E n \in SessionNames : SubscribeLookup(Caller, n, "Subscribe")
    \/ SubscribeInsert(Caller)
    \/ SubscribeCall(Caller)
    \/ \E n \in SessionNames : Unsubscribe(Caller, n)
    \/ \E s \in Sessions : ListenTop(s)
    \/ \E s \in Sessions, f \in ServerFrames : ListenRecv(s, f)
    \/ \E s \in Sessions : ListenFrame(s)
    \/ \E s \in Sessions : ListenRecvFails(s)
    \/ \E s \in Sessions : ListenErr(s)
    \/ \E p \in Procs : ReconnectEnter(p)
    \/ \E p \in Procs : ReconnectClose(p)
    \/ \E p \in Procs : ReconnectBackoff(p)
    \/ \E p \in Procs : ReconnectDial(p)
    \/ \E p \in Procs : ReconnectHandshake(p)
    \/ \E s \in Sessions : Lose(s)
    \/ ErrorsReady

SpecRestore == Init /\ [][NextRestore]_vars

\* The registry: on one session a caller subscribes, subscribes to presence
\* channels and unsubscribes, a second caller subscribes at the same time, the
\* server confirms subscriptions, and the network may drop the transport.
OtherCaller == <<"T", 2>>
NextRegistry ==
    \/ ConnectOnce
    \/ ConnectHandshake
    \/ \E n \in Names : SubscribeLookup(Caller, n, "Subscribe")
    \/ \E n \in Names : SubscribeLookup(Caller, n, "SubscribePresence")
    \/ \E n \in SessionNames : SubscribeLookup(OtherCaller, n, "Subscribe")
    \/ \E t \in Threads : SubscribeInsert(t)
    \/ \E t \in Threads : SubscribeCall(t)
    \/ \E n \in Names : Unsubscribe(Caller, n)
    \/ \E s \in Sessions : ListenTop(s)
    \/ \E s \in Sessions, f \in ChannelFrames : ListenRecv(s, f)
    \/ \E s \in Sessions : ListenFrame(s)
    \/ \E s \in Sessions : Lose(s)

SpecRegistry == Init /\ [][NextRegistry]_vars

\* The bindings: a caller binds and unbinds sinks, before and after Connect.
NextBindings ==
    \/ ConnectOnce
    \/ ConnectHandshake
    \/ \E e \in Events : Bind(Caller, e)
    \/ \E e \in Events, chans \in SUBSET (1..MaxSinks) : Unbind(Caller, e, chans)

SpecBindings == Init /\ [][NextBindings]_vars

\* The dispatcher: on one session a caller binds and unbinds sinks and subscribes
\* to the channel "foo", the server sends events, each with data of its own, and
\* consumers read the sinks.
DispatchRecv(s, f) ==
    /\ Len(fan.log) < MaxFrames /\ f.code = Len(fan.log) + 1
    /\ ListenRecv(s, f)
DispatchBind(e) == Len(fan.sinks) < DispatchSinks /\ Bind(Caller, e)
NextDispatch ==
    \/ ConnectOnce
    \/ ConnectHandshake
    \/ \E e \in Events : DispatchBind(e)
    \/ \E e \in Events, chans \in SUBSET (1..DispatchSinks) : Unbind(Caller, e, chans)
    \/ SubscribeLookup(Caller, Foo, "Subscribe")
    \/ SubscribeInsert(Caller)
    \/ SubscribeCall(Caller)
    \/ \E s \in Sessions : ListenTop(s)
    \/ \E s \in Sessions, f \in DataFrames : DispatchRecv(s, f)
    \/ \E s \in Sessions : ListenFrame(s)
    \/ \E k \in 1..DispatchSinks, i \in 1..MaxFrames : SinkReceive(k, i)

SpecDispatch == Init /\ [][NextDispatch]_vars

\* The control frames: a caller connects and disconnects at will, binds a sink to
\* the name of a control event and subscribes to the channel "foo"; the server
\* sends control frames; a consumer reads the error sink.
ControlEvents == {pusherPing, pusherError}
ControlBind(e) == Len(fan.sinks) < ControlSinks /\ Bind(Caller, e)
ControlConnect == Cardinality(Sessions \ FreshConns) < ControlConns /\ ConnectDial
NextControl ==
    \/ ControlConnect
    \/ ConnectHandshake
    \/ Disconnect
    \/ \E e \in ControlEvents : ControlBind(e)
    \/ SubscribeLookup(Caller, Foo, "Subscribe")
    \/ SubscribeInsert(Caller)
    \/ SubscribeCall(Caller)
    \/ \E s \in Sessions : ListenTop(s)
    \/ \E s \in Sessions, f \in ControlFramesOn : ListenRecv(s, f)
    \/ \E s \in Sessions : ListenFrame(s)
    \/ \E s \in Sessions : ListenRecvFails(s)
    \/ \E s \in Sessions : ListenErr(s)
    \/ ErrorsReady

SpecControl == Init /\ [][NextControl]_vars

\* The heartbeat: on one session the server sends control frames, the timers
\* fire, the heartbeat takes the reset requests and pings, the waiter of a ping
\* meets the pong or the pong timer, and the caller disconnects.
NextHeartbeat ==
    \/ ConnectOnce
    \/ ConnectHandshake
    \/ Disconnect
    \/ \E s \in Sessions : ListenTop(s)
    \/ \E s \in Sessions, f \in ControlFrames : ListenRecv(s, f)
    \/ \E s \in Sessions : ListenFrame(s)
    \/ \E s \in Sessions : HeartbeatTop(s)
    \/ \E s \in Sessions : HeartbeatDone(s)
    \/ \E s \in Sessions : HeartbeatReset(s)
    \/ \E s \in Sessions : HeartbeatPing(s)
    \/ \E s \in Sessions : ActivityTimerFires(s)
    \/ \E s \in Sessions : PongTimerFires(s)
    \/ \E k \in 1..MaxPings : WaiterStart(k)
    \/ \E k \in 1..MaxPings : WaiterPong(k)
    \/ \E k \in 1..MaxPings : WaiterTimeout(k)
    \/ \E k \in 1..MaxPings : WaiterDone(k)
    \/ \E p \in Procs : ReconnectEnter(p)

SpecHeartbeat == Init /\ [][NextHeartbeat]_vars

\* The pongs: on one session the server answers pings or does not, the timers
\* fire, the heartbeat takes the reset requests and pings, the waiter of each ping
\* meets the pong or the pong timer, and missed pongs start a reconnection.
PongFrames == {Frame(pusherPong, <<>>)}
NextPongs ==
    \/ ConnectOnce
    \/ ConnectHandshake
    \/ \E s \in Sessions : ListenTop(s)
    \/ \E s \in Sessions, f \in PongFrames : ListenRecv(s, f)
    \/ \E s \in Sessions : ListenFrame(s)
    \/ \E s \in Sessions : HeartbeatTop(s)
    \/ \E s \in Sessions : HeartbeatReset(s)
    \/ \E s \in Sessions : HeartbeatPing(s)
    \/ \E s \in Sessions : ActivityTimerFires(s)
    \/ \E s \in Sessions : PongTimerFires(s)
    \/ \E k \in 1..MaxPings : WaiterStart(k)
    \/ \E k \in 1..MaxPings : WaiterPong(k)
    \/ \E k \in 1..MaxPings : WaiterTimeout(k)
    \/ \E k \in 1..MaxPings : WaiterReturns(k)
    \/ \E p \in Procs : ReconnectEnter(p)
    \/ \E e \in Events : SendEvent(Caller, e)

SpecPongs == Init /\ [][NextPongs]_vars

\* The missed pongs: the server answers no ping; the pong timers fire, and the
\* reconnection that the missed pongs start runs its loop, dials a second
\* transport and shakes hands on it.
MissedDial(p) == Cardinality(Sessions \ FreshConns) < MissedConns /\ ReconnectDial(p)
NextMissed ==
    \/ ConnectOnce
    \/ ConnectHandshake
    \/ \E s \in Sessions : ListenTop(s)
    \/ \E s \in Sessions : HeartbeatTop(s)
    \/ \E s \in Sessions : HeartbeatDone(s)
    \/ \E s \in Sessions : HeartbeatPing(s)
    \/ \E s \in Sessions : ActivityTimerFires(s)
    \/ \E s \in Sessions : PongTimerFires(s)
    \/ \E k \in 1..MaxPings : WaiterStart(k)
    \/ \E k \in 1..MaxPings : WaiterTimeout(k)
    \/ \E k \in 1..MaxPings : WaiterDone(k)
    \/ \E k \in 1..MaxPings : WaiterReturns(k)
    \/ \E p \in Procs : ReconnectEnter(p)
    \/ \E p \in Procs : ReconnectClose(p)
    \/ \E p \in Procs : ReconnectBackoff(p)
    \/ \E p \in Procs : MissedDial(p)
    \/ \E p \in Procs : ReconnectHandshake(p)

SpecMissed == Init /\ [][NextMissed]_vars

\* The sender: the application sends events at any time, while the peer drops
\* the transport, the dispatcher meets the read error and the reconnection
\* dials and shakes hands again.
NextSend ==
    \/ ConnectOnce
    \/ ConnectHandshake
    \/ \E e \in Events : SendEvent(Caller, e)
    \/ \E s \in Sessions : ListenTop(s)
    \/ \E s \in Sessions : ListenRecvFails(s)
    \/ \E s \in Sessions : ListenErr(s)
    \/ \E s \in Sessions : Lose(s)
    \/ \E p \in Procs : ReconnectEnter(p)
    \/ \E p \in Procs : ReconnectClose(p)
    \/ \E p \in Procs : ReconnectBackoff(p)
    \/ \E p \in Procs : ReconnectDial(p)
    \/ \E p \in Procs : ReconnectHandshake(p)

SpecSend == Init /\ [][NextSend]_vars

\* The silent transport: the client connects, every ping is written and the
\* server sends nothing.  Time is kept by order: a timer fires only when every
\* goroutine is blocked, and of the two timers of a session, armed together by
\* the last ping, the one armed for the shorter duration fires first.
Blocked ==
    /\ mutex = Free
    /\ \A s \in Sessions :
          /\ proc[<<"H", s>>].pc \in {"none", "exit", "sel"}
          /\ proc[<<"H", s>>].pc = "sel" =>
                (timers[proc[<<"H", s>>].b].act # "fired"
                    /\ proc[<<"H", s>>].b \notin doneClosed)
          /\ proc[<<"L", s>>].pc \in {"none", "exit", "recv"}
    /\ \A k \in 1..MaxPings :
          /\ proc[<<"W", k>>].pc \in {"none", "wait"}
          /\ proc[<<"W", k>>].pc = "wait" =>
                (timers[proc[<<"W", k>>].b].pong # "fired"
                    /\ proc[<<"W", k>>].b \notin doneClosed)
SilentActivityFires(s) ==
    /\ Blocked
    /\ timers[s].pong = "running" => timers[s].actFor <= timers[s].pongFor
    /\ ActivityTimerFires(s)
SilentPongFires(s) ==
    /\ Blocked
    /\ timers[s].act = "running" => timers[s].pongFor <= timers[s].actFor
    /\ PongTimerFires(s)
HeartbeatSteps(s) ==
    HeartbeatTop(s) \/ HeartbeatDone(s) \/ HeartbeatPing(s) \/ HeartbeatPingAgain(s)
WaiterSteps(k) ==
    WaiterStart(k) \/ WaiterTimeout(k) \/ WaiterReturns(k)
NextSilent ==
    \/ ConnectDial
    \/ ConnectHandshake
    \/ \E s \in Sessions : ListenTop(s)
    \/ \E s \in Sessions : HeartbeatTop(s)
    \/ \E s \in Sessions : HeartbeatDone(s)
    \/ \E s \in Sessions : HeartbeatPing(s)
    \/ \E s \in Sessions : HeartbeatPingAgain(s)
    \/ \E s \in Sessions : SilentActivityFires(s)
    \/ \E s \in Sessions : SilentPongFires(s)
    \/ \E k \in 1..MaxPings : WaiterStart(k)
    \/ \E k \in 1..MaxPings : WaiterTimeout(k)
    \/ \E k \in 1..MaxPings : WaiterReturns(k)
    \/ \E p \in Procs : ReconnectEnter(p)

\* The scheduler runs every goroutine that can run, and time passes.
FairSilent ==
    /\ \A s \in Sessions : WF_vars(HeartbeatSteps(s))
    /\ \A s \in Sessions : WF_vars(ListenTop(s))
    /\ \A k \in 1..MaxPings : WF_vars(WaiterSteps(k))
    /\ \A p \in Procs : WF_vars(ReconnectEnter(p))
    /\ \A s \in Sessions : WF_vars(SilentActivityFires(s))
    /\ \A s \in Sessions : WF_vars(SilentPongFires(s))
    /\ WF_vars(ConnectHandshake)

SpecSilent == Init /\ [][NextSilent]_vars /\ FairSilent

\* The triggers: the peer drops the transport of a session; its dispatcher meets
\* the read error and its heartbeat the failed write of a ping, and the
\* reconnection dials a second transport and shakes hands on it.
NextTriggers ==
    \/ ConnectOnce
    \/ ConnectHandshake
    \/ \E s \in Sessions : Lose(s)
    \/ \E s \in Sessions : ListenTop(s)
    \/ \E s \in Sessions : ListenRecvFails(s)
    \/ \E s \in Sessions : ListenErr(s)
    \/ \E s \in Sessions : HeartbeatTop(s)
    \/ \E s \in Sessions : HeartbeatDone(s)
    \/ \E s \in Sessions : HeartbeatPing(s)
    \/ \E s \in Sessions : ActivityTimerFires(s)
    \/ \E k \in 1..MaxPings : WaiterStart(k)
    \/ \E k \in 1..MaxPings : WaiterDone(k)
    \/ \E k \in 1..MaxPings : WaiterReturns(k)
    \/ \E p \in Procs : ReconnectEnter(p)
    \/ \E p \in Procs : ReconnectClose(p)
    \/ \E p \in Procs : ReconnectBackoff(p)
    \/ \E p \in Procs : MissedDial(p)
    \/ \E p \in Procs : ReconnectHandshake(p)

SpecTriggers == Init /\ [][NextTriggers]_vars

\* ------------------------------------------------------------------ claims
\* C1: whenever Connect returns without error, the client is connected,
\* socketID is the socket_id of the server's pusher:connection_established
\* frame, activityTimeout is the frame's activity_timeout in seconds, the
\* activity timer, the pong timer and a reset channel of capacity exactly 1 are
\* allocated, and the bindings map and the channel registry are non-nil.
C1_ConnectEstablishes ==
    (ev.op = "Connect" /\ ev.ret = Nil) =>
        /\ ev.frame.event = pusherConnEstablished
        /\ c.connected
        /\ c.socketID = ev.frame.socket_id
        /\ c.activityTimeout = ev.frame.activity_timeout * 1000
        /\ c.activityTimer # 0 /\ timers[c.activityTimer].act # "none"
        /\ c.pongTimer # 0 /\ timers[c.pongTimer].pong # "none"
        /\ c.activityTimerReset # 0 /\ resetChans[c.activityTimerReset].cap = 1
        /\ c.nilMaps = {}

\* A Connect succeeds on the second transport the client has dialed.
C1_SecondSessionUp ==
    /\ ev.op = "Connect" /\ ev.ret = Nil
    /\ c.ws = 2 /\ c.socketID = SocketIdOf(2) /\ c.activityTimeout = 1000

\* C2: if the first frame of the handshake is not
\* pusher:connection_established, Connect returns an error (for pusher:error the
\* EventError with the frame's code and message, for any other event name an
\* unknown-event error), a client that was not connected stays not connected,
\* neither the dispatcher nor the heartbeat is started on the transport, and no
\* channel is subscribed again.
C2_FailedHandshake ==
    (/\ ev.op = "Connect" /\ ev.frame.err = "nil"
     /\ ev.frame.event \notin {"", pusherConnEstablished}) =>
        /\ ev.ret = IF ev.frame.event = pusherError
                    THEN [kind |-> "EventError", code |-> ev.frame.code,
                          message |-> ev.frame.message]
                    ELSE [kind |-> "unknown event", event |-> ev.frame.event]
        /\ c.connected = ev.was
        /\ proc[<<"L", c.ws>>].pc = "none" /\ proc[<<"H", c.ws>>].pc = "none"
        /\ ev.wrote = EmptyBag

\* A Connect of a client that is not connected is answered with pusher:error 4001.
C2_ErrorFrameAnswered ==
    /\ ev.op = "Connect" /\ ev.frame.event = pusherError /\ ev.frame.code = 4001
    /\ ~ev.was /\ ~c.connected

\* C3: Disconnect is idempotent: with no Connect in between, at most one
\* Disconnect closes the transport and the cancellation signal, and every
\* further Disconnect changes nothing.
C3_DisconnectClosesOnce == closes <= 1

C5_DelayDoubles ==
    /\ (ev.op = "backoff" /\ ev.prev # 0) =>
          ev.delay = Min(2 * ev.prev, maxReconnectDelay)
    /\ life # "new" =>
          (c.ReconnectDelay >= initialReconnectDelay
             /\ c.ReconnectDelay <= maxReconnectDelay)

\* C6: a reconnection never gives up: a failed attempt emits 'reconnection
\* failed' and leaves the loop at its next attempt, whose delay is at most
\* 60 s; an attempt whose handshake succeeds emits 'reconnection successful' and
\* ends the loop with the client connected.
C6_NeverGivesUp ==
    /\ ev.op = "reconnect" =>
          IF ev.ret = Nil
          THEN /\ proc[ev.by].pc = "exit" /\ c.connected
               /\ ev.emit = <<Err("reconnection successful")>>
          ELSE /\ proc[ev.by].pc = "rc_backoff"
               /\ ev.emit = <<Err("reconnection failed")>>
    /\ ev.op = "backoff" =>
          /\ proc[ev.by].pc = "rc_sleep"
          /\ ev.delay <= maxReconnectDelay
          /\ ev.emit = <<Err("attempting reconnection")>>

\* An attempt succeeds after the loop has waited the 60 s of the cap.
C6_SucceedsAtCap ==
    ev.op = "reconnect" /\ ev.ret = Nil /\ ev.delay = maxReconnectDelay

\* C7: once Disconnect has been called during a reconnection, and until Connect
\* is called, no attempt is made and the client is not connected.
C7_DisconnectAbandons ==
    abandoned => (~c.connected /\ ev.op \notin {"reconnect.dial", "reconnect"})

\* C8: every Subscribe(name) returns the channel object that the registry holds
\* for the name.
C8_ReturnsRegistered ==
    (ev.op = "Subscribe" /\ ev.ch # 0 /\ ev.name \in Registered) =>
        c.subscribedChannels[ev.name] = ev.ch

\* C9: the variant of a channel follows from the prefix of its name alone:
\* 'private-' gives a private channel, 'presence-' a presence channel, any
\* other name a public one; SubscribePresence of a name that does not start
\* with 'presence-' returns the invalid-name error, leaves the registry as it
\* was and sends nothing.
C9_VariantByPrefix ==
    /\ \A i \in DOMAIN channels :
          channels[i].kind = IF channels[i].name = PrivateFoo THEN "private"
                             ELSE IF channels[i].name = PresenceFoo THEN "presence"
                             ELSE "public"
    /\ (ev.op = "SubscribePresence" /\ ev.name # PresenceFoo) =>
          /\ ev.ret = Err("invalid presence channel name")
          /\ ev.ch = 0
          /\ c.subscribedChannels = ev.reg
          /\ ev.wrote = EmptyBag

\* SubscribePresence("presencex") is refused while a channel "private" is
\* registered, which is public.
C9_NearPrefixes ==
    /\ ev.op = "SubscribePresence" /\ ev.name = PresenceX
    /\ Private \in Registered
    /\ channels[c.subscribedChannels[Private]].kind = "public"

\* C10: Unsubscribe(name) of a registered channel removes that entry from the
\* registry, leaves every other entry as it was and issues the channel's
\* unsubscribe: one pusher:unsubscribe is written, or the transport refuses it
\* and the error of the write is returned; Unsubscribe of a name that is not
\* registered returns nil, sends nothing and leaves the registry as it was.
C10_UnsubscribeRemoves ==
    ev.op = "Unsubscribe" =>
        IF ev.name \in DOMAIN ev.reg
        THEN /\ DOMAIN c.subscribedChannels = DOMAIN ev.reg \ {ev.name}
             /\ \A n \in DOMAIN c.subscribedChannels :
                   c.subscribedChannels[n] = ev.reg[n]
             /\ ev.wrote = IF ev.ret = Nil
                           THEN Wrote(c.ws, UnsubscribeFrame(ev.name))
                           ELSE EmptyBag
             /\ ev.ret # Nil => (ev.ret = Err("send") /\ conn[c.ws] # "open")
        ELSE /\ ev.ret = Nil
             /\ ev.wrote = EmptyBag
             /\ c.subscribedChannels = ev.reg

\* One of two registered channels is unsubscribed and its frame is written.
C10_OneOfTwoRemoved ==
    /\ ev.op = "Unsubscribe" /\ ev.name \in DOMAIN ev.reg
    /\ Cardinality(DOMAIN ev.reg) = 2 /\ Cardinality(Registered) = 1
    /\ ev.wrote # EmptyBag

\* C11: a channel created by Subscribe stays in the registry, the same object
\* under the same name, through failed subscribe attempts (Subscribe returns the
\* channel together with the error), transport losses and reconnections; it
\* leaves the registry only in an Unsubscribe of its name; a handshake subscribes
\* again only channels that are in the registry.
C11_RetainedUntilUnsubscribed ==
    /\ [](ev.op = "Subscribe" => ev.ch # 0)
    /\ [](ev.op \in {"Connect", "reconnect"} =>
            BagToSet(ev.wrote) \subseteq {<<c.ws, SubscribeFrame(n)>> : n \in Registered})
    /\ [][\A n \in Registered :
            \/ /\ n \in Registered'
               /\ c'.subscribedChannels[n] = c.subscribedChannels[n]
            \/ ev'.op = "Unsubscribe" /\ ev'.name = n]_vars

Count(f, q) == Cardinality({i \in DOMAIN q : q[i] = f})
Deliveries(k, f) == Count(f, fan.sinks[k].pending) + Count(f, fan.sinks[k].got)
Routed(k, f) ==
    Cardinality({i \in DOMAIN fan.log : fan.log[i].frame = f /\ k \in fan.log[i].to})

\* C13: a received frame whose event is not pusher:ping, pusher:pong or
\* pusher:error is delivered exactly once, whole, to each sink bound to its
\* event when it is routed, and handed exactly once to the handler of the channel
\* it names if the registry holds that channel; it is never delivered to a sink
\* of another event, and no delivery is dropped or made twice.
C13_FanoutExactlyOnce ==
    /\ (ev.op = "listen.frame" /\ ~IsControl(ev.data)) =>
          /\ ev.to = SinksOf(c.boundEvents, ev.data.event)
          /\ \A k \in ev.to :
                /\ fan.sinks[k].pending # <<>>
                /\ fan.sinks[k].pending[Len(fan.sinks[k].pending)] = ev.data
          /\ ev.ch = IF ev.data.channel \in Registered
                     THEN c.subscribedChannels[ev.data.channel] ELSE 0
    /\ \A k \in DOMAIN fan.sinks :
          /\ \A f \in DataFrames : Deliveries(k, f) = Routed(k, f) /\ Routed(k, f) <= 1
          /\ \A i \in DOMAIN fan.sinks[k].pending :
                fan.sinks[k].pending[i].event = fan.sinks[k].event
          /\ \A i \in DOMAIN fan.sinks[k].got :
                fan.sinks[k].got[i].event = fan.sinks[k].event

\* An event "foo" on the registered channel "foo" was routed while one sink was
\* bound to "foo" and one to "bar": the consumer of the first has received it,
\* the second has nothing.
C13_OneOfTwoSinksServed ==
    /\ Foo \in Registered
    /\ \E k, j \in DOMAIN fan.sinks :
          /\ fan.sinks[k].event = "foo" /\ fan.sinks[j].event = "bar"
          /\ j \in SinksOf(c.boundEvents, "bar")
          /\ Len(fan.sinks[k].got) = 1 /\ fan.sinks[k].got[1].channel = Foo
          /\ fan.sinks[k].pending = <<>>
          /\ fan.sinks[j].got = <<>> /\ fan.sinks[j].pending = <<>>

\* C14: a sink that is never read does not stall the dispatcher: after routing
\* an event the dispatcher is back at the head of its loop, whatever deliveries
\* are waiting, and every waiting delivery can be received by its consumer
\* whatever the other sinks do.
C14_UnreadSinkStallsNothing ==
    /\ (ev.op = "listen.frame" /\ ~IsControl(ev.data)) => proc[ev.by].pc = "top"
    /\ \A p \in Listeners : proc[p].pc # "deliver"
    /\ \A k \in DOMAIN fan.sinks : \A i \in DOMAIN fan.sinks[k].pending :
          ENABLED SinkReceive(k, i)

\* Two sinks are bound to one event and two events were routed: the consumer of
\* one sink has read nothing, the consumer of the other has received both.
C14_SecondSinkServed ==
    \E k, j \in DOMAIN fan.sinks :
       /\ k # j /\ fan.sinks[k].event = fan.sinks[j].event
       /\ Len(fan.sinks[k].pending) = 2 /\ fan.sinks[k].got = <<>>
       /\ Len(fan.sinks[j].got) = 2 /\ fan.sinks[j].pending = <<>>

\* C15: every pusher:ping received while connected is answered with exactly one
\* pusher:pong written to the transport the ping was read from (nothing can be
\* written once that transport is gone), and it is delivered to no bound sink
\* and to no channel handler.
C15_PingAnswered ==
    (ev.op = "listen.frame" /\ ev.data.event = pusherPing) =>
        /\ BagToSet(ev.wrote) \subseteq {<<ev.on, PongFrame>>}
        /\ conn[ev.on] = "open" => ev.wrote = Wrote(ev.on, PongFrame)
        /\ ev.to = {} /\ ev.ch = 0
        /\ \A k \in DOMAIN fan.sinks : fan.sinks[k].pending = <<>>

\* C16: a pusher:error frame is emitted to the error sink as the EventError with
\* its code and message, and nothing else changes: the client, the transports
\* and the cancellation signals are as they were, the dispatcher goes on with
\* its loop and starts no reconnection, and no bound sink and no channel handler
\* receives the frame.
C16_ErrorFrameOnlyEmitted ==
    /\ []((ev.op = "listen.frame" /\ ev.data.event = pusherError) =>
            /\ ev.emit = <<[kind |-> "EventError", code |-> ev.data.code,
                            message |-> ev.data.message]>>
            /\ errRoom = IF c.Errors # "nil" /\ ev.room > 0 THEN ev.room - 1
                         ELSE ev.room
            /\ c.connected = ev.was
            /\ proc[ev.by].pc = "top"
            /\ ev.to = {} /\ ev.ch = 0 /\ ev.wrote = EmptyBag)
    /\ [][(ev'.op = "listen.frame" /\ ev'.data.event = pusherError) =>
            /\ c' = c /\ conn' = conn /\ doneClosed' = doneClosed
            /\ channels' = channels /\ fan' = fan /\ timers' = timers
            /\ pongChans' = pongChans /\ life' = life]_vars

\* A pusher:error naming the registered channel "foo" arrives while a sink is
\* bound to the event name "pusher:error" and a consumer waits on the error sink.
C16_ErrorFrameMetSink ==
    /\ ev.op = "listen.frame" /\ ev.data.event = pusherError
    /\ ev.data.channel \in Registered
    /\ SinksOf(c.boundEvents, pusherError) # {}
    /\ ev.room = 1 /\ errRoom = 0

\* C17: emitting an asynchronous error never blocks the task that emits it: with
\* no error sink, or with no consumer ready and no free slot, the error is
\* dropped, with a consumer ready it is delivered, and in every case the task
\* has gone on to the step that follows the emission.
C17_EmitNeverBlocks ==
    /\ errRoom >= 0
    /\ ev.emit # <<>> =>
          /\ errRoom = IF c.Errors = "nil" THEN ev.room
                       ELSE IF ev.room >= Len(ev.emit) THEN ev.room - Len(ev.emit)
                       ELSE 0
          /\ proc[ev.by].pc \in {"top", "reconn", "rc_sleep", "rc_backoff", "exit"}
    /\ \A s \in Sessions :
          (~panicked /\ proc[<<"L", s>>].pc = "err" /\ mutex = Free) =>
             ENABLED ListenErr(s)
    /\ \A p \in Procs :
          (~panicked /\ proc[p].pc = "rc_backoff" /\ mutex = Free) =>
             ENABLED ReconnectBackoff(p)

\* An error is emitted to a sink that exists while no consumer is ready: it is
\* dropped and the reconnection goes on to its sleep.
C17_DroppedWithoutConsumer ==
    /\ ev.emit = <<Err("attempting reconnection")>>
    /\ c.Errors # "nil" /\ ev.room = 0 /\ errRoom = 0
    /\ proc[ev.by].pc = "rc_sleep"

\* C18: a request to reset the activity timer never blocks its sender, whatever
\* the heartbeat is doing: with no request waiting it is stored, with one waiting
\* it is dropped, so that at most one request waits at any time and the sender
\* has gone on.
C18_ResetNeverBlocks ==
    /\ \A s \in Sessions : resetChans[s].len <= 1
    /\ (ev.op = "listen.frame" /\ c.activityTimerReset # 0) =>
          /\ resetChans[c.activityTimerReset].len = 1
          /\ ev.pending \in {0, 1}
          /\ proc[ev.by].pc = "top"
    /\ \A s \in Sessions :
          (~panicked /\ proc[<<"L", s>>].pc = "frame"
             /\ IsControl(proc[<<"L", s>>].x)) => ENABLED ListenFrame(s)

\* The dispatcher asks for a reset while the request of an earlier frame still
\* waits and the heartbeat waits for the pong of its ping.
C18_SecondRequestDropped ==
    /\ ev.op = "listen.frame" /\ ev.pending = 1
    /\ resetChans[c.activityTimerReset].len = 1
    /\ \E k \in 1..MaxPings : proc[<<"W", k>>].pc = "wait"

\* C19: at any time at most one of the transports the client has dialed is open:
\* the transport of a failed handshake and the transport of an ended session are
\* closed before another transport is dialed.
C19_OneOpenTransport ==
    Cardinality({w \in Sessions : conn[w] = "open"}) <= 1

\* C20: in every state connected is true exactly when the handshake of the
\* current transport has completed and no reconnection is in progress: it is
\* false from the start of a reconnection until a handshake succeeds, and false
\* once Disconnect has returned, until Connect is called.
C20_ConnectedIffEstablished ==
    /\ c.connected =>
          /\ c.ws # 0 /\ c.socketID = SocketIdOf(c.ws) /\ c.done = c.ws
          /\ ~Reconnecting
    /\ (life = "up" /\ ~Reconnecting) => c.connected
    /\ (life = "down" /\ usr[Caller].pc = "idle") => ~c.connected

\* C21: every successful handshake, the one of Connect and the one of each
\* reconnection, leaves ReconnectDelay at its initial value of 1 s and
\* pongFailures at 0.
C21_HandshakeResetsBackoff ==
    (ev.op \in {"Connect", "reconnect"} /\ ev.ret = Nil) =>
        /\ c.ReconnectDelay = initialReconnectDelay
        /\ c.pongFailures = 0

\* C22: a waiter of a ping that finds the pong in its channel while the pong
\* timer has not fired and the session is not cancelled takes the pong: its step
\* sets pongFailures to 0 and ReconnectDelay to 1 s, and the waiter returns
\* without entering attemptReconnect.
C22_PongClearsFailures ==
    [][\A k \in 1..MaxPings :
         LET p == <<"W", k>>
             b == proc[p].b
         IN (/\ proc[p].pc = "wait"
             /\ pongChans[b].len > 0
             /\ timers[b].pong # "fired"
             /\ b \notin doneClosed
             /\ proc'[p] # proc[p]) =>
                /\ c'.pongFailures = 0
                /\ c'.ReconnectDelay = initialReconnectDelay
                /\ proc'[p] = Exited
                /\ ev'.op = "pong"]_vars
\* A pong that arrives after one missed pong clears the count.
C22_PongAfterMiss == ev.op = "pong" /\ ev.prev = 1 /\ c.pongFailures = 0

\* C23: every expiry of the pong timer that a waiter meets raises pongFailures by
\* one and emits an error, and the waiter enters attemptReconnect exactly when
\* the count has reached maxPongFailures (2): after two consecutive missed pongs
\* of the session, never after a single one.
C23_ReconnectAtSecondMiss ==
    ev.op = "pong.timeout" =>
        /\ c.pongFailures = ev.prev + 1
        /\ ev.emit # <<>>
        /\ (proc[ev.by].pc = "reconn") = (c.pongFailures = maxPongFailures)

\* C24: a ping is written only by a heartbeat whose activity timer has fired;
\* every frame the dispatcher has read and every SendEvent leaves a reset
\* request pending; the heartbeat that takes a request restarts the activity
\* timer for activityTimeout; and a heartbeat that takes a firing writes one
\* ping, starts the pong timer for pongTimeout (30 s) and restarts the activity
\* timer for activityTimeout.
C24_PingOnIdle ==
    /\ []((ev.op = "heartbeat.ping" /\ ev.ret = Nil) =>
            /\ ev.wrote = Wrote(c.ws, PingFrame)
            /\ timers[c.pongTimer].pong = "running"
            /\ timers[c.pongTimer].pongFor = defaultPongTimeout
            /\ timers[c.activityTimer].act = "running"
            /\ timers[c.activityTimer].actFor = c.activityTimeout)
    /\ []((ev.op \in {"listen.frame", "SendEvent"} /\ c.activityTimerReset # 0) =>
            resetChans[c.activityTimerReset].len = 1)
    /\ []((ev.op = "heartbeat.reset" /\ proc[ev.by].pc = "top") =>
            /\ timers[c.activityTimer].act = "running"
            /\ timers[c.activityTimer].actFor = c.activityTimeout)
    /\ [][(\E w \in Sessions : BagIn(<<w, PingFrame>>, ev'.wrote)) =>
            /\ ev'.op = "heartbeat.ping"
            /\ ev'.by \in Heartbeats
            /\ timers[proc[ev'.by].b].act = "fired"]_vars
\* A heartbeat of a connected client took a firing of the activity timer on a
\* session whose activity timeout is 1234 s, and has armed both timers.
C24_PingSent ==
    /\ ev.op = "heartbeat.ping" /\ ev.ret = Nil /\ c.connected
    /\ timers[c.pongTimer].pong = "running"
    /\ timers[c.activityTimer].actFor = 1234 * Second

\* C25: a read error of the transport met while the client is connected makes
\* the dispatcher emit the error and enter attemptReconnect, and a ping that the
\* heartbeat fails to write makes the heartbeat enter attemptReconnect.
C25_ReadErrorReconnects ==
    /\ (ev.op = "listen.error") =>
          /\ ev.emit # <<>>
          /\ proc[ev.by].pc = "reconn"
    /\ (ev.op = "heartbeat.ping" /\ ev.ret # Nil) => proc[ev.by].pc = "reconn"

\* C26: once the caller has disconnected and not connected again, a dispatcher
\* that meets a read error returns without emitting it and without entering
\* attemptReconnect, and a goroutine that enters attemptReconnect returns at
\* once: it closes nothing and dials nothing.
C26_DisconnectSuppressed ==
    life = "down" =>
        /\ ev.op # "listen.error"
        /\ (ev.op = "listen.closed") => (ev.emit = <<>> /\ proc[ev.by] = Exited)
        /\ (ev.op = "attemptReconnect") => (~ev.was /\ proc[ev.by] = Exited)

\* C27: the cancellation channel of a session is closed exactly once: the
\* channel of a connected client is open, so that no close meets a closed
\* channel; the channel of every session that is no longer the current one, or
\* whose client is no longer connected, is closed; and a successful handshake
\* leaves a channel of its own, open.
C27_DoneClosedOnce ==
    /\ c.connected => c.done \notin doneClosed
    /\ \A s \in Sessions :
          (timers[s].act # "none" /\ (c.done # s \/ ~c.connected)) => s \in doneClosed
    /\ (ev.op \in {"Connect", "reconnect"} /\ ev.ret = Nil) =>
          (c.done = c.ws /\ c.done \notin doneClosed)

\* C28: every sink receives the events bound to it in the order in which the
\* dispatcher read them from the transport.
C28_SinkInReceiveOrder ==
    \A k \in DOMAIN fan.sinks :
        \A i, j \in DOMAIN fan.sinks[k].got :
            i < j => fan.sinks[k].got[i].code < fan.sinks[k].got[j].code

\* C29: the transport handle and the timers are read and written only under the
\* client lock: SendEvent, the ping and the timer resets of the heartbeat and the
\* pong of the dispatcher never run while a handshake, which replaces the handle
\* and the timers, holds the lock.
C29_AccessUnderLock ==
    (\/ ev.op \in {"SendEvent", "heartbeat.ping", "heartbeat.reset"}
     \/ ev.op = "listen.frame" /\ ev.data.event = pusherPing) => mutex = Free

\* C30: on a transport that stays silent while pings are written, a connected
\* client eventually enters a reconnection, whatever activity timeout the server
\* advertised.
C30_SilenceDetected == c.connected ~> (ev.op = "attemptReconnect" /\ ev.was)

\* C31: the dispatcher and the heartbeat that a handshake started work on the
\* session of that handshake only: the dispatcher of session s reads no
\* transport but s, the heartbeat of session s waits on no channels and timers
\* but those of s, and so no two dispatchers read one transport.
C31_OneLoopPerTransport ==
    \A s \in Sessions :
        /\ proc[<<"L", s>>].pc \in {"recv", "frame"} => proc[<<"L", s>>].b = s
        /\ proc[<<"H", s>>].pc = "sel" => proc[<<"H", s>>].b = s

\* C32: a goroutine that enters attemptReconnect and finds the client connected
\* tears down the session of the transport whose failure it met, and no two
\* reconnection loops run at once.
C32_TearsDownOwnSession ==
    /\ (ev.op = "attemptReconnect" /\ ev.was) => proc[ev.by].oldWs = ev.on
    /\ Cardinality({p \in Procs : proc[p].pc \in LoopPcs}) <= 1

\* C33: the wait that a ping starts is satisfied only by a pong received after
\* the ping was written: when the heartbeat has written a ping and started its
\* waiter, the pong channel holds no pong received before that ping.
C33_PongAfterPing ==
    (ev.op = "heartbeat.ping" /\ ev.ret = Nil /\ c.pongReceived # 0) =>
        pongChans[c.pongReceived].len = 0

====
